---------------------------- MODULE Spec2Model ----------------------------
(***************************************************************************)
(* Agent Builder frontend (app.js): the five-step wizard                   *)
(*   1 Tools -> 2 Params -> 3 Config -> 4 Deploy -> 5 Chat                 *)
(* modelled as a state machine.  The state is the `state` object of the   *)
(* script, the part of the DOM the handlers read back (the rendered view, *)
(* the name/instructions inputs, the two buttons' disabled flags, the     *)
(* show_if display of the parameter fields) and the requests in flight.   *)
(* Every handler runs to its first await atomically (single-threaded      *)
(* event loop); each awaited response is a separate action.               *)
(***************************************************************************)
EXTENDS Integers, Sequences, FiniteSets, TLC

(***************************************************************************)
(* Bounds of the model.                                                    *)
(***************************************************************************)
MaxSends == 2
MaxDeploys == 2
MaxReloads == 1
MaxPromptParams == 2
MaxContexts == 2

(***************************************************************************)
(* Text.  A text is a sequence of one-character strings, so that trim()   *)
(* is computed and not assumed.                                            *)
(***************************************************************************)
SP == " "

RECURSIVE TrimLeft(_)
TrimLeft(s) ==
  IF s = <<>> THEN <<>>
  ELSE IF Head(s) = SP THEN TrimLeft(Tail(s)) ELSE s

RECURSIVE TrimRight(_)
TrimRight(s) ==
  IF s = <<>> THEN <<>>
  ELSE IF s[Len(s)] = SP THEN TrimRight(SubSeq(s, 1, Len(s) - 1)) ELSE s

Trim(s) == TrimRight(TrimLeft(s))

\* JavaScript truthiness of a string: the empty string is the only falsy one.
Truthy(s) == s # <<>>

\* a || b on strings
OrElse(a, b) == IF Truthy(a) THEN a ELSE b

(***************************************************************************)
(* Parameter values: a string, a list of strings, or undefined.           *)
(***************************************************************************)
Undefined == [k |-> "undefined", s |-> "", l |-> <<>>]
Str(x) == [k |-> "string", s |-> x, l |-> <<>>]
List(q) == [k |-> "list", s |-> "", l |-> q]

\* a ?? b
Coalesce(a, b) == IF a # Undefined THEN a ELSE b

IsArray(v) == v.k = "list"

SeqToSet(q) == {q[i] : i \in 1..Len(q)}

(***************************************************************************)
(* The tool catalog served by GET /api/tools and GET /api/tools/{id}.     *)
(* "weather" is the built-in tool of the API reference: auth_type         *)
(* controls project_connection_id through show_if.  "search" is a custom  *)
(* tool registered through POST /api/tools: a multi_select field, and a   *)
(* runtime field declared without a default, the case the script's tests  *)
(* `param.default ?? ''` and `v.default !== undefined` provide for, and a  *)
(* runtime field whose show_if names a list as the required value.  A      *)
(* show_if is <<controlling key, required value>>.                         *)
(***************************************************************************)
ToolIds == {"weather", "search"}

Sections == {"deploy_params", "runtime_params"}

NoShowIf == <<>>

WeatherDeploy ==
  ("auth_type" :>
     [type |-> "select", default |-> Str("anonymous"), required |-> TRUE,
      options |-> <<"anonymous", "project_connection">>, show_if |-> NoShowIf])
  @@
  ("project_connection_id" :>
     [type |-> "connection_picker", default |-> Str(""), required |-> FALSE,
      options |-> <<>>, show_if |-> <<"auth_type", Str("project_connection")>>])

SearchDeploy ==
  ("operations" :>
     [type |-> "multi_select", default |-> List(<<"getDoc">>), required |-> TRUE,
      options |-> <<"getDoc", "listDocs">>, show_if |-> NoShowIf])

SearchRuntime ==
  ("region" :>
     [type |-> "string", default |-> Undefined, required |-> FALSE,
      options |-> <<>>, show_if |-> NoShowIf])
  @@
  ("zone" :>
     [type |-> "string", default |-> Str(""), required |-> FALSE,
      options |-> <<>>, show_if |-> <<"region", List(<<"eu">>)>>])

NoFields == <<>>

Catalog ==
  ("weather" :>
     [source |-> "builtin", deploy_params |-> WeatherDeploy,
      runtime_params |-> NoFields])
  @@
  ("search" :>
     [source |-> "custom", deploy_params |-> SearchDeploy,
      runtime_params |-> SearchRuntime])

\* every key name of a section's namespace
AllKeys(sec) == UNION {DOMAIN Catalog[t][sec] : t \in ToolIds}

\* what the user can enter into a field's input
FieldInputs(f) ==
  IF f.type = "select" THEN {Str(f.options[i]) : i \in 1..Len(f.options)}
  ELSE IF f.type = "connection_picker" THEN {Str(""), Str("conn-1")}
  ELSE {Str(""), Str("eu")}

AgentModels == {"gpt-4.1", "gpt-4o"}

NameInputs == {<<>>, <<SP>>, <<"b">>, <<SP, "b">>}
InstrInputs == {<<>>, <<SP>>, <<"h">>}
ChatInputs == {<<>>, <<SP>>, <<"m">>}

VARIABLES
  step,                \* state.step
  tools,               \* state.tools: ids of the catalog from the API
  toolDetails,         \* state.toolDetails: per id "absent" | "loaded" | "error"
  selected,            \* state.selected
  agentName,           \* state.agentName
  agentModel,          \* state.agentModel
  instructions,        \* state.instructions
  deployedAgent,       \* state.deployedAgent
  chatHistory,         \* state.chatHistory
  previousResponseId,  \* state.previousResponseId (0 is null)
  promptParams,        \* state.promptParams
  paramValues,         \* state.paramValues
  chatParamsConfirmed, \* state.chatParamsConfirmed
  view,                \* what #step-content shows
  modal,               \* #tool-modal-backdrop: "none" | "form" | "delete"
  nameEl,              \* #agent-name value
  instrEl,             \* #agent-instructions value
  deployBtnDisabled,   \* #deploy-btn disabled
  chatBtnDisabled,     \* #chat-send-btn disabled
  display,             \* shown parameter fields -> style.display is not 'none'
  serverTools,         \* the catalog held by the backend
  loadReqs,            \* GET /api/tools in flight, by continuation, and
                       \* whether this page has ever issued one
  toolOp,              \* POST/PUT/DELETE /api/tools in flight
  paramJobs,           \* renderToolParams suspended on its Promise.all
  deployReqs,          \* POST /api/agents in flight
  chatReqs,            \* POST /api/chat in flight
  agentFetch,          \* GET /api/agents/{name} of init in flight
  turns,               \* log of the chat turns of the current session
  sends,               \* chat requests issued so far
  deploys              \* deploy requests issued so far

stateVars == <<step, tools, toolDetails, selected, agentName, agentModel,
               instructions, deployedAgent, chatHistory, previousResponseId,
               promptParams, paramValues, chatParamsConfirmed>>
domVars == <<view, modal, nameEl, instrEl, deployBtnDisabled, chatBtnDisabled,
             display>>
netVars == <<serverTools, loadReqs, toolOp, paramJobs, deployReqs, chatReqs,
             agentFetch>>
logVars == <<turns, sends, deploys>>
vars == <<stateVars, domVars, netVars, logVars>>


(***************************************************************************)
(* Reading the schema and the selection.                                   *)
(***************************************************************************)
\* detail[section] of a cached tool: the error body of a failed GET has none
FieldsOf(td, t, sec) == IF td[t] = "loaded" THEN Catalog[t][sec] ELSE NoFields

NoOverrides(sec) == [k \in AllKeys(sec) |-> Undefined]

NotSelected ==
  [on |-> FALSE, deploy_params |-> NoOverrides("deploy_params"),
   runtime_params |-> NoOverrides("runtime_params")]

\* { deploy_params: {}, runtime_params: {} }
FreshSelection == [NotSelected EXCEPT !.on = TRUE]

SelectedIds(sel) == {t \in ToolIds : sel[t].on}

\* state.selected[toolId]?.[section]?.[key]
Stored(sel, t, sec, k) == IF sel[t].on THEN sel[t][sec][k] ELSE Undefined

\* renderParamField(toolId, section, key, param): the value the field's
\* input is filled with
FormValue(sel, t, sec, k, param) ==
  LET stored == Stored(sel, t, sec, k)
  IN IF stored # Undefined THEN stored ELSE Coalesce(param.default, Str(""))

\* what a rendered field carries in its markup (input type, options, the
\* data-showif-* attributes): the schema entry it was written from
Rendered(f) == Catalog[f[1]][f[2]][f[3]]

\* handleShowIf: the controlling field's current value
ShowIfCurrent(sel, td, t, sec, condKey) ==
  Coalesce(Stored(sel, t, sec, condKey),
           Coalesce(IF condKey \in DOMAIN FieldsOf(td, t, sec)
                    THEN FieldsOf(td, t, sec)[condKey].default
                    ELSE Undefined,
                    Str("")))

\* `${condVal}` of data-showif-value: a string as it is, a list as its
\* elements joined by commas
RECURSIVE Joined(_)
Joined(q) ==
  IF q = <<>> THEN ""
  ELSE IF Len(q) = 1 THEN q[1]
  ELSE q[1] \o "," \o Joined(Tail(q))

ShowIfAttr(condVal) == IF IsArray(condVal) THEN Joined(condVal.l) ELSE condVal.s

\* currentVal === condVal, condVal being a data-attribute string
StrictEq(v, str) == v.k = "string" /\ v.s = str

\* the fields renderToolParams writes into the form, as <<tool, section, key>>
RenderedFields(ids, td) ==
  UNION {{<<t, sec, k>> : k \in DOMAIN FieldsOf(td, t, sec)} :
           t \in ids, sec \in Sections}

\* handleShowIf over the rendered fields: TRUE is display '', FALSE is 'none'
HandleShowIf(fields, sel, td) ==
  [f \in fields |->
     LET param == Rendered(f)
     IN IF param.show_if = NoShowIf THEN TRUE
        ELSE StrictEq(ShowIfCurrent(sel, td, f[1], f[2], param.show_if[1]),
                      ShowIfAttr(param.show_if[2]))]

(***************************************************************************)
(* renderDeploy: the payload of POST /api/agents.                          *)
(***************************************************************************)
\* { ...params[sec] } plus the default of every declared key that is not set
\* and has one
DeployFilled(sel, td, t, sec) ==
  [k \in AllKeys(sec) |->
     IF sel[t][sec][k] = Undefined /\ k \in DOMAIN FieldsOf(td, t, sec)
        /\ FieldsOf(td, t, sec)[k].default # Undefined
     THEN FieldsOf(td, t, sec)[k].default
     ELSE sel[t][sec][k]]

\* the keys an object carries
KeysIn(map) == {k \in DOMAIN map : map[k] # Undefined}

ActiveKeyParams(pp) ==
  SelectSeq(pp, LAMBDA p : Truthy(Trim(p.key)))

Payload(sel, td, name, model, instr, pp) ==
  [name |-> Trim(name),
   model |-> model,
   instructions |-> Trim(instr),
   tools |-> {[tool_id |-> t,
               deploy_params |-> DeployFilled(sel, td, t, "deploy_params"),
               runtime_params |-> DeployFilled(sel, td, t, "runtime_params")]
              : t \in SelectedIds(sel)},
   prompt_params |-> ActiveKeyParams(pp)]

(***************************************************************************)
(* Prompt parameters and the deployed agent.                               *)
(***************************************************************************)
PKeys == {<<>>, <<"p">>}
PDefaults == {<<>>, <<"d">>}
PValues == {<<>>, <<SP>>, <<"v">>}

\* addPromptParam's new row
BlankPromptParam ==
  [key |-> <<>>, type |-> "string", default |-> <<>>, required |-> FALSE]

\* prompt_params lists an agent fetched by name may carry
ServerAgentParams ==
  {<<>>, <<[key |-> <<"p">>, type |-> "string", default |-> <<>>, required |-> TRUE]>>}

NoAgent == [set |-> FALSE, name |-> <<>>, id |-> "", version |-> 0,
            prompt_params |-> <<>>]

\* a paramValues entry: unset is undefined
Unset == [set |-> FALSE, v |-> <<>>]
Val(x) == [set |-> TRUE, v |-> x]
NoParamValues == [k \in PKeys |-> Unset]

\* getActivePromptParams
ActivePromptParams(pp, agent) ==
  IF Len(pp) > 0 THEN pp ELSE agent.prompt_params

\* renderChatParamForm's pre-fill loop
RECURSIVE Prefill(_, _)
Prefill(pv, params) ==
  IF params = <<>> THEN pv
  ELSE LET p == Head(params)
           pv1 == IF pv[p.key].set THEN pv
                  ELSE [pv EXCEPT ![p.key] = Val(OrElse(p.default, <<>>))]
       IN Prefill(pv1, Tail(params))


(***************************************************************************)
(* renderStep.  It is evaluated on the state the calling handler leaves    *)
(* (the primed state variables); pv, dr, cr, pj and nd are paramValues,    *)
(* the deploy requests, the chat requests, the suspended renderToolParams  *)
(* and the deploy count as the handler leaves them.                        *)
(***************************************************************************)
UrlAgent == <<"b">>

\* a write to #step-content replaces the Send button the pending sends hold
Detach(cr) == {[r EXCEPT !.btnLive = FALSE] : r \in cr}

NoDisplay == <<>>

Dom(v, n, i, db, cb, d) ==
  /\ view' = v
  /\ nameEl' = n
  /\ instrEl' = i
  /\ deployBtnDisabled' = db
  /\ chatBtnDisabled' = cb
  /\ display' = d

\* the body of an error response, { error: {...} }, as its keys: what
\* state.tools holds after loadTools has stored such a body
ErrorBody == {"error"}

\* state.tools.map and state.tools.filter exist
IsList(t) == t \subseteq ToolIds

\* renderToolCatalog; over a state.tools that is no list its first line
\* throws before #step-content is written
RenderToolCatalog(pv, dr, pj, nd) ==
  /\ IF IsList(tools')
     THEN Dom("catalog", <<>>, <<>>, TRUE, TRUE, NoDisplay)
     ELSE UNCHANGED <<view, nameEl, instrEl, deployBtnDisabled, chatBtnDisabled,
                      display>>
  /\ paramValues' = pv /\ deployReqs' = dr /\ paramJobs' = pj /\ deploys' = nd

RenderToolParams(pv, dr, pj, nd) ==
  LET toolIds == SelectedIds(selected')
      toFetch == {t \in toolIds : toolDetails'[t] = "absent"}
  IN /\ paramValues' = pv /\ deployReqs' = dr /\ deploys' = nd
     /\ IF toolIds # {} /\ toFetch # {}
        THEN /\ Dom("loading", <<>>, <<>>, TRUE, TRUE, NoDisplay)
             /\ paramJobs' = pj \cup {[toolIds |-> toolIds, pending |-> toFetch,
                                       failed |-> FALSE]}
        ELSE /\ Dom("params", <<>>, <<>>, TRUE, TRUE,
                    HandleShowIf(RenderedFields(toolIds, toolDetails'),
                                 selected', toolDetails'))
             /\ paramJobs' = pj

\* state.tools.find is called for a selected tool without cached details
ConfigThrows ==
  ~IsList(tools') /\ \E t \in SelectedIds(selected') : toolDetails'[t] = "absent"

\* renderAgentConfig; its first lines throw over a state.tools that is no list
RenderAgentConfig(pv, dr, pj, nd) ==
  /\ IF ~ConfigThrows
     THEN Dom("config", agentName', instructions',
              ~Truthy(agentName') \/ ~Truthy(instructions'), TRUE, NoDisplay)
     ELSE UNCHANGED <<view, nameEl, instrEl, deployBtnDisabled, chatBtnDisabled,
                      display>>
  /\ paramValues' = pv /\ deployReqs' = dr /\ paramJobs' = pj /\ deploys' = nd

RenderDeploy(pv, dr, pj, nd) ==
  /\ nd < MaxDeploys
  /\ Dom("deploying", <<>>, <<>>, TRUE, TRUE, NoDisplay)
  /\ deployReqs' = dr \cup
       {[id |-> nd + 1,
         payload |-> Payload(selected', toolDetails', agentName', agentModel',
                             instructions', promptParams')]}
  /\ deploys' = nd + 1
  /\ paramValues' = pv /\ paramJobs' = pj

RenderChat(pv, dr, pj, nd) ==
  LET params == ActivePromptParams(promptParams', deployedAgent')
  IN /\ deployReqs' = dr /\ paramJobs' = pj /\ deploys' = nd
     /\ IF Len(params) > 0 /\ ~chatParamsConfirmed'
        THEN /\ Dom("chatForm", <<>>, <<>>, TRUE, TRUE, NoDisplay)
             /\ paramValues' = Prefill(pv, params)
        ELSE /\ Dom("chat", <<>>, <<>>, TRUE, FALSE, NoDisplay)
             /\ paramValues' = pv

RenderStep(pv, dr, cr, pj, nd) ==
  /\ chatReqs' = IF (step' = 1 /\ ~IsList(tools')) \/ (step' = 3 /\ ConfigThrows)
                  THEN cr ELSE Detach(cr)
  /\ CASE step' = 1 -> RenderToolCatalog(pv, dr, pj, nd)
       [] step' = 2 -> RenderToolParams(pv, dr, pj, nd)
       [] step' = 3 -> RenderAgentConfig(pv, dr, pj, nd)
       [] step' = 4 -> RenderDeploy(pv, dr, pj, nd)
       [] step' = 5 -> RenderChat(pv, dr, pj, nd)

\* renderStep called by a handler that touched none of the five
Rerender == RenderStep(paramValues, deployReqs, chatReqs, paramJobs, deploys)

(***************************************************************************)
(* Page load: builder.html, or builder.html?agent=<name> (chat-only mode). *)
(***************************************************************************)
NoLoads == [init |-> FALSE, reload |-> 0, asked |-> FALSE]
\* init without ?agent: await loadTools()
InitLoad == [init |-> TRUE, reload |-> 0, asked |-> TRUE]
NoToolOp == [kind |-> "none", id |-> ""]
NoModal == [kind |-> "none", id |-> "", mode |-> ""]

\* the state object as the script creates it, with nothing in flight
Blank ==
  /\ step = 1
  /\ tools = {}
  /\ toolDetails = [t \in ToolIds |-> "absent"]
  /\ selected = [t \in ToolIds |-> NotSelected]
  /\ agentName = <<>>
  /\ agentModel = "gpt-4.1"
  /\ instructions = <<>>
  /\ deployedAgent = NoAgent
  /\ chatHistory = <<>>
  /\ previousResponseId = 0
  /\ promptParams = <<>>
  /\ paramValues = NoParamValues
  /\ chatParamsConfirmed = FALSE
  /\ modal = NoModal
  /\ nameEl = <<>>
  /\ instrEl = <<>>
  /\ deployBtnDisabled = TRUE
  /\ display = NoDisplay
  /\ serverTools = ToolIds
  /\ toolOp = NoToolOp
  /\ paramJobs = {}
  /\ deployReqs = {}
  /\ chatReqs = {}
  /\ turns = <<>>
  /\ sends = 0
  /\ deploys = 0

\* init without ?agent: nothing is rendered until loadTools returns
InitBuilder ==
  /\ Blank
  /\ view = "blank"
  /\ chatBtnDisabled = TRUE
  /\ loadReqs = InitLoad
  /\ agentFetch = FALSE

\* init with ?agent=<name>: the chat is rendered at once, the details follow
InitAgent ==
  /\ step = 5
  /\ tools = {}
  /\ toolDetails = [t \in ToolIds |-> "absent"]
  /\ selected = [t \in ToolIds |-> NotSelected]
  /\ agentName = UrlAgent
  /\ agentModel = "gpt-4.1"
  /\ instructions = <<>>
  /\ deployedAgent = [set |-> TRUE, name |-> UrlAgent, id |-> "", version |-> 0,
                      prompt_params |-> <<>>]
  /\ chatHistory = <<>>
  /\ previousResponseId = 0
  /\ promptParams = <<>>
  /\ paramValues = NoParamValues
  /\ chatParamsConfirmed = FALSE
  /\ modal = NoModal
  /\ nameEl = <<>>
  /\ instrEl = <<>>
  /\ deployBtnDisabled = TRUE
  /\ display = NoDisplay
  /\ serverTools = ToolIds
  /\ toolOp = NoToolOp
  /\ paramJobs = {}
  /\ deployReqs = {}
  /\ chatReqs = {}
  /\ turns = <<>>
  /\ sends = 0
  /\ deploys = 0
  /\ view = "chat"
  /\ chatBtnDisabled = FALSE
  /\ loadReqs = NoLoads
  /\ agentFetch = TRUE

Init == InitBuilder \/ InitAgent


draftVars == <<agentName, agentModel, instructions, promptParams>>
sessionVars == <<chatHistory, previousResponseId, chatParamsConfirmed, turns, sends>>
catalogVars == <<tools, serverTools, loadReqs, toolOp, modal>>
\* what renderStep writes
renderVars == <<view, nameEl, instrEl, deployBtnDisabled, chatBtnDisabled, display,
                paramValues, deployReqs, chatReqs, paramJobs, deploys>>

(***************************************************************************)
(* loadTools and the GET /api/agents/{name} of init.                       *)
(***************************************************************************)
Loading(kind) == IF kind = "init" THEN loadReqs.init ELSE loadReqs.reload > 0

Loaded(kind) ==
  IF kind = "init" THEN [loadReqs EXCEPT !.init = FALSE]
  ELSE [loadReqs EXCEPT !.reload = @ - 1]

\* state.tools = await res.json(); then the caller's renderStep()
LoadToolsOk(kind) ==
  /\ Loading(kind)
  /\ loadReqs' = Loaded(kind)
  /\ tools' = serverTools
  /\ UNCHANGED <<step, toolDetails, selected, draftVars, deployedAgent, sessionVars,
                 serverTools, toolOp, modal, agentFetch>>
  /\ Rerender

\* catch (e) { state.tools = [] }; then the caller's renderStep()
LoadToolsFail(kind) ==
  /\ Loading(kind)
  /\ loadReqs' = Loaded(kind)
  /\ tools' = {}
  /\ UNCHANGED <<step, toolDetails, selected, draftVars, deployedAgent, sessionVars,
                 serverTools, toolOp, modal, agentFetch>>
  /\ Rerender

\* an error response with a JSON body: res.ok is not looked at and the body
\* is stored as state.tools; then the caller's renderStep()
LoadToolsError(kind) ==
  /\ Loading(kind)
  /\ loadReqs' = Loaded(kind)
  /\ tools' = ErrorBody
  /\ UNCHANGED <<step, toolDetails, selected, draftVars, deployedAgent, sessionVars,
                 serverTools, toolOp, modal, agentFetch>>
  /\ Rerender

\* if (res.ok) { state.deployedAgent = await res.json(); renderStep(); }
AgentFetchOk(pp) ==
  /\ agentFetch
  /\ agentFetch' = FALSE
  /\ deployedAgent' = [set |-> TRUE, name |-> UrlAgent, id |-> "asst", version |-> 1,
                       prompt_params |-> pp]
  /\ UNCHANGED <<step, toolDetails, selected, draftVars, sessionVars, catalogVars>>
  /\ Rerender

\* not ok, or the fetch throws: ignored, chat still works
AgentFetchFail ==
  /\ agentFetch
  /\ agentFetch' = FALSE
  /\ UNCHANGED <<stateVars, domVars, serverTools, loadReqs, toolOp, paramJobs,
                 deployReqs, chatReqs, logVars>>

(***************************************************************************)
(* Step 1: the catalog.                                                    *)
(***************************************************************************)
\* a toggleTool that only flips the tool and keeps what was stored for it
toggleToolKeepsOverrides(id) ==
  /\ view = "catalog" /\ modal = NoModal
  /\ id \in tools
  /\ selected' = [selected EXCEPT ![id].on = ~@]
  /\ UNCHANGED <<step, toolDetails, draftVars, deployedAgent, sessionVars,
                 catalogVars, agentFetch>>
  /\ Rerender

toggleTool(id) ==
  /\ view = "catalog" /\ modal = NoModal
  /\ id \in tools
  /\ selected' = [selected EXCEPT ![id] = IF @.on THEN NotSelected ELSE FreshSelection]
  /\ UNCHANGED <<step, toolDetails, draftVars, deployedAgent, sessionVars,
                 catalogVars, agentFetch>>
  /\ Rerender

\* openToolForm('add') and openToolForm('edit', id) on a custom tool's card
openToolForm(mode, id) ==
  /\ view = "catalog" /\ modal = NoModal
  /\ IF mode = "edit" THEN id \in tools /\ Catalog[id].source = "custom"
     ELSE Catalog[id].source = "custom"
  /\ modal' = [kind |-> "form", id |-> id, mode |-> mode]
  /\ UNCHANGED <<stateVars, view, nameEl, instrEl, deployBtnDisabled,
                 chatBtnDisabled, display, netVars, logVars>>

showDeleteToolModal(id) ==
  /\ view = "catalog" /\ modal = NoModal
  /\ id \in tools /\ Catalog[id].source = "custom"
  /\ modal' = [kind |-> "delete", id |-> id, mode |-> ""]
  /\ UNCHANGED <<stateVars, view, nameEl, instrEl, deployBtnDisabled,
                 chatBtnDisabled, display, netVars, logVars>>

closeToolModal ==
  /\ modal # NoModal /\ toolOp = NoToolOp
  /\ modal' = NoModal
  /\ UNCHANGED <<stateVars, view, nameEl, instrEl, deployBtnDisabled,
                 chatBtnDisabled, display, netVars, logVars>>

\* saveToolForm up to its fetch
saveToolForm ==
  /\ modal.kind = "form" /\ toolOp = NoToolOp
  /\ toolOp' = [kind |-> modal.mode, id |-> modal.id]
  /\ UNCHANGED <<stateVars, domVars, serverTools, loadReqs, paramJobs, deployReqs,
                 chatReqs, agentFetch, logVars>>

\* confirmDeleteTool up to its fetch
confirmDeleteTool ==
  /\ modal.kind = "delete" /\ toolOp = NoToolOp
  /\ toolOp' = [kind |-> "delete", id |-> modal.id]
  /\ UNCHANGED <<stateVars, domVars, serverTools, loadReqs, paramJobs, deployReqs,
                 chatReqs, agentFetch, logVars>>

\* res.ok: closeToolModal(); await loadTools();
SaveToolOk ==
  /\ toolOp.kind \in {"add", "edit"}
  /\ IF toolOp.kind = "add" THEN toolOp.id \notin serverTools
     ELSE toolOp.id \in serverTools
  /\ loadReqs.reload < MaxReloads
  /\ serverTools' = serverTools \cup {toolOp.id}
  /\ toolOp' = NoToolOp
  /\ modal' = NoModal
  /\ loadReqs' = [loadReqs EXCEPT !.reload = @ + 1, !.asked = TRUE]
  /\ UNCHANGED <<stateVars, view, nameEl, instrEl, deployBtnDisabled,
                 chatBtnDisabled, display, paramJobs, deployReqs, chatReqs,
                 agentFetch, logVars>>

\* !res.ok or a network error: alert(), the modal stays
ToolOpFail ==
  /\ toolOp # NoToolOp
  /\ toolOp' = NoToolOp
  /\ UNCHANGED <<stateVars, domVars, serverTools, loadReqs, paramJobs, deployReqs,
                 chatReqs, agentFetch, logVars>>

\* a deletion that forgets the cached schema but keeps the selection entry
DeleteToolOkKeepsSelection ==
  /\ toolOp.kind = "delete"
  /\ toolOp.id \in serverTools
  /\ loadReqs.reload < MaxReloads
  /\ serverTools' = serverTools \ {toolOp.id}
  /\ toolDetails' = [toolDetails EXCEPT ![toolOp.id] = "absent"]
  /\ toolOp' = NoToolOp
  /\ modal' = NoModal
  /\ loadReqs' = [loadReqs EXCEPT !.reload = @ + 1, !.asked = TRUE]
  /\ UNCHANGED <<step, tools, selected, draftVars, deployedAgent, sessionVars,
                 paramValues, view, nameEl, instrEl, deployBtnDisabled,
                 chatBtnDisabled, display, paramJobs, deployReqs, chatReqs,
                 agentFetch, deploys>>

\* res.ok: delete the three entries; closeToolModal(); await loadTools();
DeleteToolOk ==
  /\ toolOp.kind = "delete"
  /\ toolOp.id \in serverTools
  /\ loadReqs.reload < MaxReloads
  /\ serverTools' = serverTools \ {toolOp.id}
  /\ selected' = [selected EXCEPT ![toolOp.id] = NotSelected]
  /\ toolDetails' = [toolDetails EXCEPT ![toolOp.id] = "absent"]
  /\ toolOp' = NoToolOp
  /\ modal' = NoModal
  /\ loadReqs' = [loadReqs EXCEPT !.reload = @ + 1, !.asked = TRUE]
  /\ UNCHANGED <<step, tools, draftVars, deployedAgent, sessionVars, paramValues,
                 view, nameEl, instrEl, deployBtnDisabled, chatBtnDisabled, display,
                 paramJobs, deployReqs, chatReqs, agentFetch, deploys>>


(***************************************************************************)
(* Navigation.  The buttons each view offers: <<view, n>> is an onclick    *)
(* goToStep(n) of that view ("Deploy Agent" only while it is enabled).     *)
(***************************************************************************)
NavButtons ==
  {<<"catalog", 2>>, <<"params", 1>>, <<"params", 3>>, <<"config", 2>>,
   <<"config", 4>>, <<"deployFailed", 3>>}

\* a goToStep that lets the catalog be left only with a tool selected
goToStepNeedsTool(n) ==
  /\ modal = NoModal
  /\ <<view, n>> \in NavButtons
  /\ n = 4 => ~deployBtnDisabled
  /\ n = 2 => SelectedIds(selected) # {}
  /\ LET name == IF n = 4 THEN OrElse(Trim(nameEl), agentName) ELSE agentName
         instr == IF n = 4 THEN OrElse(Trim(instrEl), instructions) ELSE instructions
     IN /\ agentName' = name
        /\ instructions' = instr
        /\ IF n = 4 /\ (~Truthy(name) \/ ~Truthy(instr))
           THEN UNCHANGED <<step, tools, toolDetails, selected, agentModel,
                            promptParams, deployedAgent, sessionVars, catalogVars,
                            agentFetch, renderVars>>
           ELSE /\ step' = n
                /\ UNCHANGED <<tools, toolDetails, selected, agentModel,
                               promptParams, deployedAgent, sessionVars,
                               catalogVars, agentFetch>>
                /\ Rerender

goToStep(n) ==
  /\ modal = NoModal
  /\ <<view, n>> \in NavButtons
  /\ n = 4 => ~deployBtnDisabled
  /\ LET name == IF n = 4 THEN OrElse(Trim(nameEl), agentName) ELSE agentName
         instr == IF n = 4 THEN OrElse(Trim(instrEl), instructions) ELSE instructions
     IN /\ agentName' = name
        /\ instructions' = instr
        /\ IF n = 4 /\ (~Truthy(name) \/ ~Truthy(instr))
           THEN UNCHANGED <<step, tools, toolDetails, selected, agentModel,
                            promptParams, deployedAgent, sessionVars, catalogVars,
                            agentFetch, renderVars>>
           ELSE /\ step' = n
                /\ UNCHANGED <<tools, toolDetails, selected, agentModel,
                               promptParams, deployedAgent, sessionVars,
                               catalogVars, agentFetch>>
                /\ Rerender

(***************************************************************************)
(* Step 2: renderToolParams after its Promise.all, and the form.           *)
(***************************************************************************)
\* the rest of renderToolParams once every fetch of the job has answered
ParamsContinue(j, td, pending) ==
  IF pending # {}
  THEN /\ paramJobs' = (paramJobs \ {j}) \cup {[j EXCEPT !.pending = pending]}
       /\ UNCHANGED <<view, nameEl, instrEl, deployBtnDisabled, chatBtnDisabled,
                      display, chatReqs>>
  ELSE /\ paramJobs' = paramJobs \ {j}
       /\ IF j.failed \/ \E t \in j.toolIds : td[t] = "absent"
          THEN UNCHANGED <<view, nameEl, instrEl, deployBtnDisabled,
                           chatBtnDisabled, display, chatReqs>>
          ELSE /\ Dom("params", <<>>, <<>>, TRUE, TRUE,
                      HandleShowIf(RenderedFields(j.toolIds, td), selected, td))
               /\ chatReqs' = Detach(chatReqs)

\* state.toolDetails[id] = await res.json(), whatever the status
ToolFetchOk(j, t) ==
  /\ j \in paramJobs /\ t \in j.pending
  /\ toolDetails' = [toolDetails EXCEPT
                       ![t] = IF t \in serverTools THEN "loaded" ELSE "error"]
  /\ ParamsContinue(j, toolDetails', j.pending \ {t})
  /\ UNCHANGED <<step, tools, selected, draftVars, deployedAgent, sessionVars,
                 paramValues, serverTools, loadReqs, toolOp, modal, deployReqs,
                 agentFetch, deploys>>

\* the fetch rejects: Promise.all rejects and nothing catches it
ToolFetchFail(j, t) ==
  /\ j \in paramJobs /\ t \in j.pending
  /\ LET pending == j.pending \ {t}
     IN paramJobs' = (paramJobs \ {j}) \cup
                       (IF pending = {} THEN {}
                        ELSE {[j EXCEPT !.pending = pending, !.failed = TRUE]})
  /\ UNCHANGED <<stateVars, domVars, serverTools, loadReqs, toolOp, deployReqs,
                 chatReqs, agentFetch, logVars>>

\* a field of the form the user can reach
Editable(f) ==
  /\ view = "params" /\ modal = NoModal
  /\ f \in DOMAIN display
  /\ display[f]

WithOverride(t, sec, k, v) ==
  [selected EXCEPT ![t] = [(IF @.on THEN @ ELSE FreshSelection) EXCEPT ![sec][k] = v]]

\* a setParam that stores the value and leaves the display as it is
setParamNoShowIf(toolId, section, key, value) ==
  /\ Editable(<<toolId, section, key>>)
  /\ LET param == Rendered(<<toolId, section, key>>)
     IN /\ param.type # "multi_select"
        /\ value \in FieldInputs(param)
        /\ value # FormValue(selected, toolId, section, key, param)
  /\ selected' = WithOverride(toolId, section, key, value)
  /\ UNCHANGED <<step, tools, toolDetails, draftVars, deployedAgent, sessionVars,
                 paramValues, view, modal, nameEl, instrEl, deployBtnDisabled,
                 chatBtnDisabled, display, netVars, deploys>>

\* onchange of a text or select input
setParam(toolId, section, key, value) ==
  /\ Editable(<<toolId, section, key>>)
  /\ LET param == Rendered(<<toolId, section, key>>)
     IN /\ param.type # "multi_select"
        /\ value \in FieldInputs(param)
        /\ value # FormValue(selected, toolId, section, key, param)
  /\ selected' = WithOverride(toolId, section, key, value)
  /\ display' = HandleShowIf(DOMAIN display, selected', toolDetails)
  /\ UNCHANGED <<step, tools, toolDetails, draftVars, deployedAgent, sessionVars,
                 paramValues, view, modal, nameEl, instrEl, deployBtnDisabled,
                 chatBtnDisabled, netVars, deploys>>

\* arr.includes(option) ? arr.filter(x => x !== option) : [...arr, option]
Toggled(arr, option) ==
  IF option \in SeqToSet(arr) THEN SelectSeq(arr, LAMBDA x : x # option)
  ELSE Append(arr, option)

\* the selection toggleMultiParam leaves: the stored list (no list stored: an
\* empty one) with the option toggled, stored back
ToggleIn(sel, toolId, section, key, option) ==
  LET current == Stored(sel, toolId, section, key)
      arr == IF IsArray(current) THEN current.l ELSE <<>>
  IN [sel EXCEPT ![toolId] = [(IF @.on THEN @ ELSE FreshSelection)
                                EXCEPT ![section][key] = List(Toggled(arr, option))]]

\* onclick of a chip of a multi_select field
toggleMultiParam(toolId, section, key, option) ==
  /\ Editable(<<toolId, section, key>>)
  /\ LET param == Rendered(<<toolId, section, key>>)
     IN /\ param.type = "multi_select"
        /\ option \in SeqToSet(param.options)
  /\ selected' = ToggleIn(selected, toolId, section, key, option)
  /\ UNCHANGED <<step, tools, toolDetails, draftVars, deployedAgent, sessionVars,
                 catalogVars, agentFetch>>
  /\ Rerender

(***************************************************************************)
(* Step 3: the agent form.                                                 *)
(***************************************************************************)
\* a checkReady that leaves "Deploy Agent" enabled whatever was typed
typeNameEnables(x) ==
  /\ view = "config" /\ modal = NoModal
  /\ x # nameEl
  /\ nameEl' = x
  /\ agentName' = x
  /\ instructions' = instrEl
  /\ deployBtnDisabled' = FALSE
  /\ UNCHANGED <<step, tools, toolDetails, selected, agentModel, promptParams,
                 deployedAgent, sessionVars, paramValues, view, modal, instrEl,
                 chatBtnDisabled, display, netVars, deploys>>

\* the input listener checkReady (and onchange) after typing into #agent-name
typeName(x) ==
  /\ view = "config" /\ modal = NoModal
  /\ x # nameEl
  /\ nameEl' = x
  /\ agentName' = x
  /\ instructions' = instrEl
  /\ deployBtnDisabled' = (~Truthy(Trim(x)) \/ ~Truthy(Trim(instrEl)))
  /\ UNCHANGED <<step, tools, toolDetails, selected, agentModel, promptParams,
                 deployedAgent, sessionVars, paramValues, view, modal, instrEl,
                 chatBtnDisabled, display, netVars, deploys>>

\* the same after typing into #agent-instructions
typeInstructions(x) ==
  /\ view = "config" /\ modal = NoModal
  /\ x # instrEl
  /\ instrEl' = x
  /\ instructions' = x
  /\ agentName' = nameEl
  /\ deployBtnDisabled' = (~Truthy(Trim(nameEl)) \/ ~Truthy(Trim(x)))
  /\ UNCHANGED <<step, tools, toolDetails, selected, agentModel, promptParams,
                 deployedAgent, sessionVars, paramValues, view, modal, nameEl,
                 chatBtnDisabled, display, netVars, deploys>>

\* onchange of #agent-model
setModel(m) ==
  /\ view = "config" /\ modal = NoModal
  /\ m # agentModel
  /\ agentModel' = m
  /\ UNCHANGED <<step, tools, toolDetails, selected, agentName, instructions,
                 promptParams, deployedAgent, sessionVars, paramValues, domVars,
                 netVars, deploys>>

addPromptParam ==
  /\ view = "config" /\ modal = NoModal
  /\ Len(promptParams) < MaxPromptParams
  /\ promptParams' = Append(promptParams, BlankPromptParam)
  /\ UNCHANGED <<step, tools, toolDetails, selected, agentName, agentModel,
                 instructions, deployedAgent, sessionVars, catalogVars, agentFetch>>
  /\ Rerender

RemoveAt(q, i) == SubSeq(q, 1, i - 1) \o SubSeq(q, i + 1, Len(q))

removePromptParam(index) ==
  /\ view = "config" /\ modal = NoModal
  /\ index \in 1..Len(promptParams)
  /\ promptParams' = RemoveAt(promptParams, index)
  /\ UNCHANGED <<step, tools, toolDetails, selected, agentName, agentModel,
                 instructions, deployedAgent, sessionVars, catalogVars, agentFetch>>
  /\ Rerender

PromptFields == {"key", "default", "required"}

\* setPromptParam(index, 'key' | 'default' | 'required', value)
PromptFieldInputs(field) ==
  IF field = "key" THEN PKeys
  ELSE IF field = "default" THEN PDefaults
  ELSE BOOLEAN

setPromptParam(index, field, value) ==
  /\ view = "config" /\ modal = NoModal
  /\ index \in 1..Len(promptParams)
  /\ field \in PromptFields
  /\ value \in PromptFieldInputs(field)
  /\ promptParams[index][field] # value
  /\ promptParams' = [promptParams EXCEPT ![index][field] = value]
  /\ UNCHANGED <<step, tools, toolDetails, selected, agentName, agentModel,
                 instructions, deployedAgent, sessionVars, paramValues, domVars,
                 netVars, deploys>>


(***************************************************************************)
(* Step 4: the answer to POST /api/agents.                                 *)
(***************************************************************************)
\* the pending sends of a session that has been replaced
Stale(cr) == {[r EXCEPT !.turn = 0] : r \in cr}

\* state.deployedAgent = await res.json(); the chat is emptied; step 5
DeployOk(r) ==
  /\ r \in deployReqs
  /\ deployedAgent' = [set |-> TRUE, name |-> r.payload.name, id |-> "asst",
                       version |-> r.id, prompt_params |-> r.payload.prompt_params]
  /\ chatHistory' = <<>>
  /\ previousResponseId' = 0
  /\ step' = 5
  /\ turns' = <<>>
  /\ UNCHANGED <<tools, toolDetails, selected, draftVars, chatParamsConfirmed,
                 sends, catalogVars, agentFetch>>
  /\ RenderStep(paramValues, deployReqs \ {r}, Stale(chatReqs), paramJobs, deploys)

\* a failure handler that empties the draft's name and instructions
DeployFailClearsDraft(r) ==
  /\ r \in deployReqs
  /\ deployReqs' = deployReqs \ {r}
  /\ Dom("deployFailed", <<>>, <<>>, TRUE, TRUE, NoDisplay)
  /\ chatReqs' = Detach(chatReqs)
  /\ agentName' = <<>>
  /\ instructions' = <<>>
  /\ UNCHANGED <<step, tools, toolDetails, selected, agentModel, promptParams,
                 deployedAgent, sessionVars, paramValues, modal, serverTools,
                 loadReqs, toolOp, paramJobs, agentFetch, deploys>>

\* catch (err): "Deployment Failed" and a "Back to Config" button
DeployFail(r) ==
  /\ r \in deployReqs
  /\ deployReqs' = deployReqs \ {r}
  /\ Dom("deployFailed", <<>>, <<>>, TRUE, TRUE, NoDisplay)
  /\ chatReqs' = Detach(chatReqs)
  /\ UNCHANGED <<stateVars, modal, serverTools, loadReqs, toolOp, paramJobs,
                 agentFetch, logVars>>

(***************************************************************************)
(* Step 5: the parameter form and the chat.                                *)
(***************************************************************************)
ActiveParams == ActivePromptParams(promptParams, deployedAgent)

ActiveKeys == {ActiveParams[i].key : i \in 1..Len(ActiveParams)}

\* state.paramValues[key] || ''
Shown(pv, key) == IF pv[key].set THEN pv[key].v ELSE <<>>

\* onchange of an input of the parameter form
setChatParam(key, value) ==
  /\ view = "chatForm" /\ modal = NoModal
  /\ key \in ActiveKeys
  /\ value # Shown(paramValues, key)
  /\ paramValues' = [paramValues EXCEPT ![key] = Val(value)]
  /\ UNCHANGED <<step, tools, toolDetails, selected, draftVars, deployedAgent,
                 sessionVars, domVars, netVars, deploys>>

\* p.required && !state.paramValues[p.key]?.trim()
MissingRequired(params, pv) ==
  \E i \in 1..Len(params) :
    params[i].required /\ ~Truthy(Trim(Shown(pv, params[i].key)))

\* the lines of the context message: label-or-key, then the value
RECURSIVE ContextLines(_, _)
ContextLines(params, pv) ==
  IF params = <<>> THEN <<>>
  ELSE LET p == Head(params)
           val == OrElse(Shown(pv, p.key), OrElse(p.default, <<>>))
       IN (IF Truthy(val) THEN p.key \o <<":">> \o val \o <<"\n">> ELSE <<>>)
          \o ContextLines(Tail(params), pv)

ContextMessage(lines) ==
  [role |-> "context", content |-> lines, toolCalls |-> <<>>, n |-> 0]

\* the context messages the history holds
Contexts(h) == {i \in 1..Len(h) : h[i].role = "context"}

\* a confirm that accepts the form without looking at the required values
confirmChatParamsUnchecked ==
  /\ view = "chatForm" /\ modal = NoModal
  /\ Cardinality(Contexts(chatHistory)) < MaxContexts
  /\ chatParamsConfirmed' = TRUE
  /\ LET lines == ContextLines(ActiveParams, paramValues)
     IN chatHistory' = IF lines # <<>>
                       THEN Append(chatHistory, ContextMessage(lines))
                       ELSE chatHistory
  /\ UNCHANGED <<step, tools, toolDetails, selected, draftVars,
                 deployedAgent, previousResponseId, turns, sends,
                 catalogVars, agentFetch>>
  /\ Rerender

confirmChatParams ==
  /\ view = "chatForm" /\ modal = NoModal
  /\ Cardinality(Contexts(chatHistory)) < MaxContexts
  /\ IF MissingRequired(ActiveParams, paramValues)
     THEN UNCHANGED vars
     ELSE /\ chatParamsConfirmed' = TRUE
          /\ LET lines == ContextLines(ActiveParams, paramValues)
             IN chatHistory' = IF lines # <<>>
                               THEN Append(chatHistory, ContextMessage(lines))
                               ELSE chatHistory
          /\ UNCHANGED <<step, tools, toolDetails, selected, draftVars,
                         deployedAgent, previousResponseId, turns, sends,
                         catalogVars, agentFetch>>
          /\ Rerender

\* the Edit button exists when renderParamSummaryBar has something to show
SummaryBarShown == ContextLines(ActiveParams, paramValues) # <<>>

\* an Edit that opens the form on emptied values
editChatParamsResets ==
  /\ view = "chat" /\ modal = NoModal
  /\ SummaryBarShown
  /\ chatParamsConfirmed' = FALSE
  /\ UNCHANGED <<step, tools, toolDetails, selected, draftVars, deployedAgent,
                 chatHistory, previousResponseId, turns, sends, catalogVars,
                 agentFetch>>
  /\ RenderStep(NoParamValues, deployReqs, chatReqs, paramJobs, deploys)

editChatParams ==
  /\ view = "chat" /\ modal = NoModal
  /\ SummaryBarShown
  /\ chatParamsConfirmed' = FALSE
  /\ UNCHANGED <<step, tools, toolDetails, selected, draftVars, deployedAgent,
                 chatHistory, previousResponseId, turns, sends, catalogVars,
                 agentFetch>>
  /\ Rerender

UserMessage(message, n) ==
  [role |-> "user", content |-> message, toolCalls |-> <<>>, n |-> n]

AssistantMessage(content, n) ==
  [role |-> "assistant", content |-> content, toolCalls |-> <<>>, n |-> n]

\* what opens sendChat: the Send button (unless disabled), Enter in the input
SendVia == {"button", "enter"}

\* sendChat up to its fetch
sendChat(raw, via) ==
  /\ view = "chat" /\ modal = NoModal
  /\ via = "button" => ~chatBtnDisabled
  /\ sends < MaxSends
  /\ IF ~Truthy(Trim(raw))
     THEN UNCHANGED vars
     ELSE /\ chatHistory' = Append(chatHistory, UserMessage(Trim(raw), sends + 1))
          /\ chatBtnDisabled' = TRUE
          /\ chatReqs' = chatReqs \cup
               {[n |-> sends + 1,
                 agent_name |-> IF deployedAgent.set /\ Truthy(deployedAgent.name)
                                THEN deployedAgent.name ELSE agentName,
                 message |-> Trim(raw),
                 previous_response_id |-> previousResponseId,
                 param_values |-> paramValues,
                 btnLive |-> TRUE,
                 turn |-> Len(turns) + 1]}
          /\ turns' = Append(turns, [req |-> previousResponseId, st |-> "pending",
                                     resp |-> 0])
          /\ sends' = sends + 1
          /\ UNCHANGED <<step, tools, toolDetails, selected, draftVars,
                         deployedAgent, previousResponseId, paramValues,
                         chatParamsConfirmed, view, modal, nameEl, instrEl,
                         deployBtnDisabled, display, serverTools, loadReqs,
                         toolOp, paramJobs, deployReqs, agentFetch, deploys>>

Answered(r, st, resp) ==
  IF r.turn > 0 THEN [turns EXCEPT ![r.turn] = [@ EXCEPT !.st = st, !.resp = resp]]
  ELSE turns

\* the response: its response_id is the request's number
ChatOk(r) ==
  /\ r \in chatReqs
  /\ chatReqs' = chatReqs \ {r}
  /\ previousResponseId' = r.n
  /\ chatHistory' = Append(chatHistory, AssistantMessage(<<"r">>, r.n))
  /\ chatBtnDisabled' = IF r.btnLive THEN FALSE ELSE chatBtnDisabled
  /\ turns' = Answered(r, "ok", r.n)
  /\ UNCHANGED <<step, tools, toolDetails, selected, draftVars, deployedAgent,
                 paramValues, chatParamsConfirmed, view, modal, nameEl, instrEl,
                 deployBtnDisabled, display, serverTools, loadReqs, toolOp,
                 paramJobs, deployReqs, agentFetch, sends, deploys>>

\* !res.ok or a network error: "Error: ..." as an assistant message
ChatFail(r) ==
  /\ r \in chatReqs
  /\ chatReqs' = chatReqs \ {r}
  /\ chatHistory' = Append(chatHistory, AssistantMessage(<<"E">>, r.n))
  /\ chatBtnDisabled' = IF r.btnLive THEN FALSE ELSE chatBtnDisabled
  /\ turns' = Answered(r, "err", 0)
  /\ UNCHANGED <<step, tools, toolDetails, selected, draftVars, deployedAgent,
                 previousResponseId, paramValues, chatParamsConfirmed, view,
                 modal, nameEl, instrEl, deployBtnDisabled, display,
                 serverTools, loadReqs, toolOp, paramJobs, deployReqs,
                 agentFetch, sends, deploys>>

\* an updateAgent that starts the wizard over with nothing selected
updateAgentClearsSelection ==
  /\ view = "chat" /\ modal = NoModal
  /\ promptParams' = IF Len(deployedAgent.prompt_params) > 0 /\ Len(promptParams) = 0
                     THEN deployedAgent.prompt_params ELSE promptParams
  /\ step' = 1
  /\ deployedAgent' = NoAgent
  /\ chatHistory' = <<>>
  /\ previousResponseId' = 0
  /\ chatParamsConfirmed' = FALSE
  /\ turns' = <<>>
  /\ selected' = [t \in ToolIds |-> NotSelected]
  /\ UNCHANGED <<tools, toolDetails, agentName, agentModel, instructions, sends,
                 catalogVars, agentFetch>>
  /\ RenderStep(NoParamValues, deployReqs, Stale(chatReqs), paramJobs, deploys)

\* an updateAgent that always takes the deployed agent's prompt parameters
updateAgentAlwaysCopies ==
  /\ view = "chat" /\ modal = NoModal
  /\ promptParams' = deployedAgent.prompt_params
  /\ step' = 1
  /\ deployedAgent' = NoAgent
  /\ chatHistory' = <<>>
  /\ previousResponseId' = 0
  /\ chatParamsConfirmed' = FALSE
  /\ turns' = <<>>
  /\ UNCHANGED <<tools, toolDetails, selected, agentName, agentModel,
                 instructions, sends, catalogVars, agentFetch>>
  /\ RenderStep(NoParamValues, deployReqs, Stale(chatReqs), paramJobs, deploys)

updateAgent ==
  /\ view = "chat" /\ modal = NoModal
  /\ promptParams' = IF Len(deployedAgent.prompt_params) > 0 /\ Len(promptParams) = 0
                     THEN deployedAgent.prompt_params ELSE promptParams
  /\ step' = 1
  /\ deployedAgent' = NoAgent
  /\ chatHistory' = <<>>
  /\ previousResponseId' = 0
  /\ chatParamsConfirmed' = FALSE
  /\ turns' = <<>>
  /\ UNCHANGED <<tools, toolDetails, selected, agentName, agentModel,
                 instructions, sends, catalogVars, agentFetch>>
  /\ RenderStep(NoParamValues, deployReqs, Stale(chatReqs), paramJobs, deploys)

\* the "New Agent" link of the chat: builder.html is loaded afresh, the
\* script's state and the requests of the old page are gone, the backend's
\* catalog is what it was
newAgent ==
  /\ view = "chat" /\ modal = NoModal
  /\ step' = 1
  /\ tools' = {}
  /\ toolDetails' = [t \in ToolIds |-> "absent"]
  /\ selected' = [t \in ToolIds |-> NotSelected]
  /\ agentName' = <<>>
  /\ agentModel' = "gpt-4.1"
  /\ instructions' = <<>>
  /\ deployedAgent' = NoAgent
  /\ chatHistory' = <<>>
  /\ previousResponseId' = 0
  /\ promptParams' = <<>>
  /\ paramValues' = NoParamValues
  /\ chatParamsConfirmed' = FALSE
  /\ Dom("blank", <<>>, <<>>, TRUE, TRUE, NoDisplay)
  /\ modal' = NoModal
  /\ loadReqs' = InitLoad
  /\ toolOp' = NoToolOp
  /\ paramJobs' = {}
  /\ deployReqs' = {}
  /\ chatReqs' = {}
  /\ agentFetch' = FALSE
  /\ turns' = <<>>
  /\ sends' = 0
  /\ deploys' = 0
  /\ UNCHANGED serverTools

(***************************************************************************)
(* The next-state relation.                                                *)
(***************************************************************************)
Fields == ToolIds \X Sections \X (AllKeys("deploy_params") \cup AllKeys("runtime_params"))

FieldValues == {Str(x) : x \in {"", "conn-1", "eu", "anonymous", "project_connection"}}

Options == {"getDoc", "listDocs"}

\* GET /api/tools answers (init's, or the reload after a tool was saved/deleted)
LoadActions ==
  \/ \E kind \in {"init", "reload"} : LoadToolsOk(kind)
  \/ \E kind \in {"init", "reload"} : LoadToolsFail(kind)

\* GET /api/tools answers with an error body
LoadErrors == \E kind \in {"init", "reload"} : LoadToolsError(kind)

\* init's GET /api/agents/{name} answers
AgentFetchActions ==
  \/ \E pp \in ServerAgentParams : AgentFetchOk(pp)
  \/ AgentFetchFail

\* the custom-tool modals of the catalog
ToolCrudActions ==
  \/ \E mode \in {"add", "edit"}, id \in ToolIds : openToolForm(mode, id)
  \/ \E id \in ToolIds : showDeleteToolModal(id)
  \/ closeToolModal
  \/ saveToolForm
  \/ confirmDeleteTool
  \/ SaveToolOk
  \/ ToolOpFail
  \/ DeleteToolOk

\* choosing tools and filling their parameter form
ToolActions(ids) ==
  \/ \E id \in ids : toggleTool(id)
  \/ \E j \in paramJobs : \E t \in j.pending : ToolFetchOk(j, t)
  \/ \E j \in paramJobs : \E t \in j.pending : ToolFetchFail(j, t)
  \/ \E f \in Fields, v \in FieldValues : setParam(f[1], f[2], f[3], v)
  \/ \E f \in Fields, o \in Options : toggleMultiParam(f[1], f[2], f[3], o)

\* the agent form, the user typing names and instructions out of the given sets
DraftActions(names, instrs) ==
  \/ \E x \in names : typeName(x)
  \/ \E x \in instrs : typeInstructions(x)

ModelActions == \E m \in AgentModels : setModel(m)

\* the prompt parameter builder, the user editing the given columns
PromptActions(fields) ==
  \/ addPromptParam
  \/ \E i \in 1..MaxPromptParams : removePromptParam(i)
  \/ \E i \in 1..MaxPromptParams, field \in fields :
       \E value \in PromptFieldInputs(field) : setPromptParam(i, field, value)

NavActions == \E n \in 1..4 : goToStep(n)

DeployActions ==
  \/ \E r \in deployReqs : DeployOk(r)
  \/ \E r \in deployReqs : DeployFail(r)

FormActions ==
  \/ \E key \in PKeys, value \in PValues : setChatParam(key, value)
  \/ confirmChatParams
  \/ editChatParams

ChatActions ==
  \/ \E raw \in ChatInputs, via \in SendVia : sendChat(raw, via)
  \/ \E r \in chatReqs : ChatOk(r)
  \/ \E r \in chatReqs : ChatFail(r)

Next ==
  \/ LoadActions
  \/ LoadErrors
  \/ AgentFetchActions
  \/ ToolCrudActions
  \/ ToolActions(ToolIds)
  \/ DraftActions(NameInputs, InstrInputs)
  \/ ModelActions
  \/ PromptActions(PromptFields)
  \/ NavActions
  \/ DeployActions
  \/ FormActions
  \/ ChatActions
  \/ updateAgent
  \/ newAgent

Spec == Init /\ [][Next]_vars

(***************************************************************************)
(* Scenarios.  Each is the same program with the user's inputs narrowed,   *)
(* so that the part of the state it is about can be explored in full.      *)
(***************************************************************************)
ValidNames == {<<"b">>}
ValidInstrs == {<<"h">>}

\* the user declares no more than one prompt parameter
OneParam == Len(promptParams') <= 1

\* The parameter form: tools are chosen and configured, the agent form is
\* filled with a valid name and instructions, the agent is deployed and
\* updated.
NextParams ==
  \/ LoadActions
  \/ ToolActions(ToolIds)
  \/ DraftActions(ValidNames, ValidInstrs)
  \/ ModelActions
  \/ NavActions
  \/ DeployActions
  \/ updateAgent

SpecParams == InitBuilder /\ [][NextParams]_vars

\* The catalog and the parameter form alone: custom tools are added,
\* edited and deleted and the catalog is reloaded while tools are chosen
\* and configured.
NextCatalog ==
  \/ LoadActions
  \/ ToolCrudActions
  \/ ToolActions(ToolIds)
  \/ NavActions

SpecCatalog == InitBuilder /\ [][NextCatalog]_vars

\* The catalog's requests: GET /api/tools answers with the list, fails at
\* the network or answers with an error body, at the page's load and after a
\* custom tool was saved or deleted; tools are chosen, an agent is deployed,
\* or opened by name, and updated.
NextLoad ==
  \/ LoadActions
  \/ LoadErrors
  \/ AgentFetchActions
  \/ ToolCrudActions
  \/ ToolActions({"search"})
  \/ DraftActions(ValidNames, ValidInstrs)
  \/ NavActions
  \/ DeployActions
  \/ updateAgent

SpecLoad == Init /\ [][NextLoad]_vars

\* The chat: an agent without tools is deployed from the wizard or opened
\* by name, its parameters are confirmed and edited, messages are sent.
NextChat ==
  \/ LoadActions
  \/ AgentFetchActions
  \/ DraftActions(ValidNames, ValidInstrs)
  \/ NavActions
  \/ DeployActions
  \/ FormActions
  \/ ChatActions
  \/ updateAgent
  \/ newAgent

SpecChat == Init /\ [][NextChat]_vars

\* The deploy gate: the agent form with every kind of name and
\* instructions and with prompt parameters, the catalog reloads after a
\* custom tool is saved or deleted, deployment and its outcome.
NextDeploy ==
  \/ LoadActions
  \/ AgentFetchActions
  \/ ToolCrudActions
  \/ DraftActions(NameInputs, InstrInputs)
  \/ (PromptActions({"key"}) /\ OneParam)
  \/ NavActions
  \/ DeployActions
  \/ confirmChatParams
  \/ updateAgent

SpecDeploy == Init /\ [][NextDeploy]_vars

\* The chat's parameter form: prompt parameters are declared in the agent
\* form with every key, default and required flag, or come with an agent
\* opened by name; the agent is deployed, the form is filled, confirmed
\* and edited, the agent is updated.
NextForm ==
  \/ LoadActions
  \/ AgentFetchActions
  \/ DraftActions(ValidNames, ValidInstrs)
  \/ (PromptActions(PromptFields) /\ OneParam)
  \/ NavActions
  \/ DeployActions
  \/ FormActions
  \/ updateAgent

SpecForm == Init /\ [][NextForm]_vars

\* The prompt parameter builder: up to MaxPromptParams rows are added and
\* removed and their keys are typed; the agent is deployed, its parameter
\* form is filled and confirmed, the agent is updated.
NextBuilder ==
  \/ LoadActions
  \/ DraftActions(ValidNames, ValidInstrs)
  \/ PromptActions({"key"})
  \/ NavActions
  \/ DeployActions
  \/ FormActions
  \/ updateAgent

SpecBuilder == InitBuilder /\ [][NextBuilder]_vars

(***************************************************************************)
(* The contract of the specification the program is held against.         *)
(***************************************************************************)
\* Empty: "" for a scalar field, [] for a list field
Empty(param) == IF param.type = "multi_select" THEN List(<<>>) ELSE Str("")

\* resolve(tool, section, key): the override, else the default, else Empty
Resolve(sel, td, t, sec, k) ==
  IF Stored(sel, t, sec, k) # Undefined THEN Stored(sel, t, sec, k)
  ELSE IF k \notin DOMAIN FieldsOf(td, t, sec) THEN Str("")
  ELSE IF FieldsOf(td, t, sec)[k].default # Undefined
       THEN FieldsOf(td, t, sec)[k].default
  ELSE Empty(FieldsOf(td, t, sec)[k])

\* some required field of an active tool resolves to empty
RequiredEmpty(sel, td) ==
  \E t \in SelectedIds(sel), sec \in Sections :
    \E k \in DOMAIN FieldsOf(td, t, sec) :
      /\ FieldsOf(td, t, sec)[k].required
      /\ Resolve(sel, td, t, sec, k) \in {Str(""), List(<<>>)}

\* a visibleWhen whose required value is a list
ListRule(param) == param.show_if # NoShowIf /\ IsArray(param.show_if[2])

\* isVisible: no visibleWhen, or the controlling field resolves to its value
Visible(sel, td, f) ==
  LET param == Rendered(f)
  IN \/ param.show_if = NoShowIf
     \/ Resolve(sel, td, f[1], f[2], param.show_if[1]) = param.show_if[2]

\* the deploy requests a step issues
Issued == deployReqs' \ deployReqs

\* the chat requests in flight that belong to the session on screen
PendingSends == {r \in chatReqs : r.turn > 0}

(***************************************************************************)
(* Claims.                                                                 *)
(***************************************************************************)
\* C1: within one chat session the request of turn N+1 carries exactly the
\* response_id that turn N's response returned, and the request of the
\* first turn carries no token (null).
C1_TokenThreading ==
  /\ Len(turns) >= 1 => turns[1].req = 0
  /\ \A n \in 1..(Len(turns) - 1) :
       turns[n].st = "ok" => turns[n + 1].req = turns[n].resp

\* C2: at most one chat request of a session is in flight at any time: a
\* send attempted while one is pending, by the Send button or by Enter in
\* the input, appends nothing and issues nothing.
C2_OneSendInFlight == Cardinality(PendingSends) <= 1

\* C3: at most one deploy request is in flight at any time, whatever
\* re-renders the Deploying step while one is pending.
C3_OneDeployInFlight == Cardinality(deployReqs) <= 1

\* C4: Continue on the parameter form (ConfigureParams -> ConfigureAgent) is
\* refused if and only if some required field of an active tool, visible or
\* hidden, resolves to empty.
C4_ParamsGate ==
  [][(view = "params" /\ goToStep(3))
       => (step' = 3 <=> ~RequiredEmpty(selected, toolDetails))]_vars

\* C5: no deploy request is ever issued whose trimmed name or trimmed
\* instructions is empty.
C5_NoBlankDeploy ==
  \A r \in deployReqs : Truthy(r.payload.name) /\ Truthy(r.payload.instructions)

C7_SuccessEntersFreshChat ==
  [][\A r \in deployReqs :
       DeployOk(r)
         => /\ step' = 5
            /\ deployedAgent'.set /\ deployedAgent'.name = r.payload.name
            /\ deployedAgent'.version = r.id
            /\ chatHistory' = <<>>
            /\ previousResponseId' = 0
            /\ ~chatParamsConfirmed']_vars

\* C8: in every deploy request, each tool's deploy and runtime value maps
\* carry exactly the keys the tool's schema declares for that section.
C8_PayloadKeys ==
  [][\A r \in Issued : \A tool \in r.payload.tools : \A sec \in Sections :
       KeysIn(tool[sec]) = DOMAIN FieldsOf(toolDetails', tool.tool_id, sec)]_vars

\* C9: a field's value is resolved as the override if one is stored (even an
\* empty one), else the default, else Empty, both where the form is filled
\* and where the deploy payload is assembled.
C9_ResolvePrecedence ==
  [][/\ \A f \in RenderedFields(SelectedIds(selected'), toolDetails') :
          FormValue(selected', f[1], f[2], f[3],
                    FieldsOf(toolDetails', f[1], f[2])[f[3]])
            = Resolve(selected', toolDetails', f[1], f[2], f[3])
     /\ \A r \in Issued : \A tool \in r.payload.tools : \A sec \in Sections :
          \A k \in DOMAIN FieldsOf(toolDetails', tool.tool_id, sec) :
            tool[sec][k] = Resolve(selected', toolDetails', tool.tool_id, sec, k)]_vars

BlankRequired(params, pv) ==
  \E i \in 1..Len(params) :
    /\ params[i].required
    /\ Trim(IF pv[params[i].key].set THEN pv[params[i].key].v ELSE <<>>) = <<>>

\* q occurs in s as a contiguous run
Contains(s, q) ==
  \E i \in 1..(Len(s) - Len(q) + 1) : SubSeq(s, i, i + Len(q) - 1) = q

\* C11: "Start Chat" on the parameter form is refused while any required
\* prompt parameter has a blank (empty or whitespace-only) value, leaving
\* confirmed false and the history unchanged; in every other case it
\* succeeds, sets confirmed and appends exactly one context message to the
\* history, which names each key with its value.
C11_ConfirmContract ==
  [][confirmChatParams
       => IF BlankRequired(ActiveParams, paramValues)
          THEN ~chatParamsConfirmed' /\ chatHistory' = chatHistory
          ELSE /\ chatParamsConfirmed'
               /\ Len(chatHistory') = Len(chatHistory) + 1
               /\ SubSeq(chatHistory', 1, Len(chatHistory)) = chatHistory
               /\ chatHistory'[Len(chatHistory')].role = "context"
               /\ \A i \in 1..Len(ActiveParams) :
                    LET p == ActiveParams[i]
                    IN (Truthy(p.key) /\ Truthy(Shown(paramValues, p.key)))
                         => Contains(chatHistory'[Len(chatHistory')].content,
                                     p.key \o <<":">> \o Shown(paramValues, p.key))]_vars

\* the failure message sendChat's catch appends for a request
FailureMessage(r) == AssistantMessage(<<"E">>, r.n)

\* C12: when a chat turn of the session on screen fails, exactly one
\* assistant message that encodes the failure is appended to the history,
\* after the turn's user message; the token is unchanged, the wizard stays
\* in step Chatting on the same view, and the Send button the turn had
\* disabled takes a next message.
C12_FailedTurnContinues ==
  [][\A r \in PendingSends :
       ChatFail(r)
         => /\ chatHistory' = Append(chatHistory, FailureMessage(r))
            /\ \E i \in 1..Len(chatHistory) :
                 chatHistory[i] = UserMessage(r.message, r.n)
            /\ previousResponseId' = previousResponseId
            /\ step = 5 /\ step' = 5 /\ view' = view
            /\ r.btnLive => ~chatBtnDisabled']_vars

\* the members of a field's resolved list
ResolvedSet(sel, td, t, sec, k) == SeqToSet(Resolve(sel, td, t, sec, k).l)

\* C13: toggling an option of a multi_select field twice in a row returns
\* the field's resolved value to the set it was, whatever the state the
\* first toggle starts from, a field without override whose value is its
\* non-empty default included.
C13_ToggleTwice ==
  [][\A f \in Fields, o \in Options :
       toggleMultiParam(f[1], f[2], f[3], o)
         => ResolvedSet(ToggleIn(selected', f[1], f[2], f[3], o), toolDetails',
                        f[1], f[2], f[3])
              = ResolvedSet(selected, toolDetails, f[1], f[2], f[3])]_vars

\* C14: toggling option o of a multi_select field takes the field's
\* resolved list (the override if there is one, else the default), removes
\* o if it is in it and appends it otherwise, and stores the result as the
\* override.
C14_ToggleReadsResolved ==
  [][\A f \in Fields, o \in Options :
       toggleMultiParam(f[1], f[2], f[3], o)
         => Stored(selected', f[1], f[2], f[3])
              = List(Toggled(Resolve(selected, toolDetails, f[1], f[2], f[3]).l, o))]_vars

\* C15: "Update Agent" empties deployedAgent and the chat session (history,
\* token, confirmed, paramValues), gives the draft the deployed agent's
\* prompt parameters if and only if the draft has none of its own, and
\* shows the catalog at step SelectTools.
C15_UpdateAgent ==
  [][updateAgent
       => /\ deployedAgent' = NoAgent
          /\ chatHistory' = <<>>
          /\ previousResponseId' = 0
          /\ ~chatParamsConfirmed'
          /\ paramValues' = NoParamValues
          /\ promptParams' = IF promptParams = <<>>
                             THEN deployedAgent.prompt_params ELSE promptParams
          /\ UNCHANGED <<agentName, agentModel, instructions, selected>>
          /\ step' = 1 /\ view' = "catalog"]_vars

\* the wizard is back at the catalog with the prompt parameters of the
\* agent that was opened by name carried into the empty draft
C15_Witness ==
  /\ step = 1 /\ view = "catalog"
  /\ deploys = 0 /\ ~deployedAgent.set
  /\ promptParams
       = <<[key |-> <<"p">>, type |-> "string", default |-> <<>>, required |-> TRUE]>>
  /\ paramValues = NoParamValues /\ chatHistory = <<>>

C17_NoBackFromChat ==
  [][/\ (view = "params" /\ goToStep(1)) => step' = 1
     /\ (view = "config" /\ goToStep(2)) => step' = 2
     /\ (view = "deployFailed" /\ goToStep(3)) => step' = 3
     /\ step = 5 => (step' = 5 \/ updateAgent \/ newAgent)]_vars

\* the tool is active and the key is a field its schema declares in the section
Declared(sel, t, sec, k) == sel[t].on /\ k \in DOMAIN Catalog[t][sec]

\* C18: an override is stored only for an active tool and a key that the
\* tool's schema declares in that section; setting one never activates a
\* tool; so every key of every overrides map is a declared field of an
\* active tool.
C18_OverridesDeclared ==
  /\ [](\A t \in ToolIds, sec \in Sections : \A k \in AllKeys(sec) :
          selected[t][sec][k] # Undefined => Declared(selected, t, sec, k))
  /\ [][\A f \in Fields :
          ((\E v \in FieldValues : setParam(f[1], f[2], f[3], v))
             \/ (\E o \in Options : toggleMultiParam(f[1], f[2], f[3], o)))
            => /\ Declared(selected, f[1], f[2], f[3])
               /\ SelectedIds(selected') = SelectedIds(selected)]_vars

\* every tool's details cached
AllLoaded == [t \in ToolIds |-> "loaded"]

\* C19: deselecting a tool removes its entry with all its deploy and
\* runtime overrides and leaves every other tool's entry as it is;
\* selecting it again gives it two empty overrides maps, so that each of
\* its fields resolves to its default again.
C19_DeactivateForgets ==
  [][\A id \in ToolIds :
       toggleTool(id)
         => /\ \A other \in ToolIds \ {id} : selected'[other] = selected[other]
            /\ selected[id].on => selected'[id] = NotSelected
            /\ ~selected[id].on
                 => /\ selected'[id].on
                    /\ \A sec \in Sections :
                         /\ \A k \in AllKeys(sec) : selected'[id][sec][k] = Undefined
                         /\ \A k \in DOMAIN Catalog[id][sec] :
                              Resolve(selected', AllLoaded, id, sec, k)
                                = Coalesce(Catalog[id][sec][k].default,
                                           Empty(Catalog[id][sec][k]))]_vars

\* "search" was configured and then deselected on the catalog, the
\* override of "weather" is still there
C19_Witness ==
  /\ step = 1 /\ view = "catalog"
  /\ ~selected["search"].on /\ toolDetails["search"] = "loaded"
  /\ selected["search"] = NotSelected
  /\ Stored(selected, "weather", "deploy_params", "auth_type")
       = Str("project_connection")

\* the first parameter of the list that has the key
FirstWithKey(params, k) ==
  params[CHOOSE i \in 1..Len(params) :
           params[i].key = k /\ \A j \in 1..(i - 1) : params[j].key # k]

\* C20: whenever the parameter form is rendered, every active prompt
\* parameter whose value is not set gets its default as value, a value
\* that is set is kept (what was entered before an edit survives it), and
\* no other key is touched.  The default of a key is that of the first
\* parameter declared with it.
C20_PrefillKeepsValues ==
  [][(view' = "chatForm" /\ ~(\E key \in PKeys, value \in PValues : setChatParam(key, value)))
       => LET params == ActivePromptParams(promptParams', deployedAgent')
              keys == {params[i].key : i \in 1..Len(params)}
          IN /\ \A k \in keys :
                  paramValues'[k] = IF paramValues[k].set THEN paramValues[k]
                                    ELSE Val(FirstWithKey(params, k).default)
             /\ \A k \in PKeys \ keys : paramValues'[k] = paramValues[k]]_vars

\* the form is open again after a confirm, with the value that was entered
\* and not the parameter's default
C20_Witness ==
  /\ step = 5 /\ view = "chatForm"
  /\ Contexts(chatHistory) # {}
  /\ Len(ActiveParams) = 1
  /\ ActiveParams[1].key = <<"p">> /\ ActiveParams[1].default = <<"d">>
  /\ paramValues[<<"p">>] = Val(<<"v">>)


(***************************************************************************)
(* The parameter form inside the chat.                                     *)
(***************************************************************************)
\* C21: while the chat stays open, the form's flag goes from unconfirmed to
\* confirmed only by a confirm whose required values are all non-blank, and
\* from confirmed to unconfirmed only by Edit; Edit always leaves the flag
\* false with the form open, and a confirm that finds a required value
\* blank, after an Edit as much as before, leaves everything as it was.
C21_ConfirmEditOnly ==
  [][/\ (step = 5 /\ step' = 5 /\ ~chatParamsConfirmed /\ chatParamsConfirmed')
          => (confirmChatParams /\ ~BlankRequired(ActiveParams, paramValues))
     /\ (step = 5 /\ step' = 5 /\ chatParamsConfirmed /\ ~chatParamsConfirmed')
          => editChatParams
     /\ editChatParams => (~chatParamsConfirmed' /\ view' = "chatForm")
     /\ (confirmChatParams /\ BlankRequired(ActiveParams, paramValues))
          => (~chatParamsConfirmed' /\ UNCHANGED vars)]_vars

\* the form reopened by Edit after a confirm, a required value blanked
C21_Witness ==
  /\ view = "chatForm" /\ ~chatParamsConfirmed
  /\ Contexts(chatHistory) # {}
  /\ BlankRequired(ActiveParams, paramValues)


(***************************************************************************)
(* The deploy payload and the draft.                                       *)
(***************************************************************************)
\* C22: every deploy request carries the draft's name and instructions
\* trimmed, its model, and the whole sequence of the draft's prompt
\* parameters, in order, each row as it was defined (key, label, type,
\* options, default, required, description, placeholder).
C22_PayloadIsDraft ==
  [][\A r \in Issued :
       /\ r.payload.name = Trim(agentName')
       /\ r.payload.instructions = Trim(instructions')
       /\ r.payload.model = agentModel'
       /\ r.payload.prompt_params = promptParams']_vars


(***************************************************************************)
(* The context message.                                                    *)
(***************************************************************************)
\* C23: the context message of a confirm is for display only: in the
\* history no context message stands after a user or an assistant message,
\* and no chat request in flight carries a context message's text; a
\* request's message is the trimmed text of the user message of its turn.
C23_ContextDisplayOnly ==
  /\ \A i \in Contexts(chatHistory) :
       \A j \in 1..(i - 1) : chatHistory[j].role = "context"
  /\ \A r \in chatReqs :
       /\ \A i \in Contexts(chatHistory) : r.message # chatHistory[i].content
       /\ r.message \in {Trim(m) : m \in ChatInputs}


(***************************************************************************)
(* Rules that name a list.                                                 *)
(***************************************************************************)
\* C24: a field whose show_if names a list as the required value is
\* rejected when the schema is processed: the parameter form never holds
\* such a field with a display computed from the rule.
C24_ListRuleRejected ==
  \A f \in DOMAIN display : ~ListRule(Rendered(f))


C26_StaleAnswerDiscarded ==
  [][\A r \in chatReqs :
       (r.turn = 0 /\ (ChatOk(r) \/ ChatFail(r)))
         => UNCHANGED <<chatHistory, previousResponseId>>]_vars


(***************************************************************************)
(* The order of the chat.                                                  *)
(***************************************************************************)
\* the history without its context messages
Dialogue(h) == SelectSeq(h, LAMBDA m : m.role # "context")

\* C27: leaving the context messages aside, the history alternates user,
\* assistant, user, ... starting with a user message, and every assistant
\* message directly follows the user message of its own turn.
C27_Alternation ==
  LET h == Dialogue(chatHistory)
  IN \A i \in 1..Len(h) :
       IF i % 2 = 1 THEN h[i].role = "user"
       ELSE h[i].role = "assistant" /\ h[i].n = h[i - 1].n


(***************************************************************************)
(* Editing the parameters of a running chat.                               *)
(***************************************************************************)
\* C28: the chat session is reset when its parameters are edited again: a
\* confirm that follows an Edit (the history holds the context message of
\* the earlier confirm) leaves no user or assistant message and no
\* continuation token for the turns that follow.
C28_EditResetsSession ==
  [][(confirmChatParams /\ ~chatParamsConfirmed /\ chatParamsConfirmed'
        /\ Contexts(chatHistory) # {})
       => (previousResponseId' = 0 /\ Dialogue(chatHistory') = <<>>)]_vars


(***************************************************************************)
(* What Update Agent keeps.                                                *)
(***************************************************************************)
\* C29: updateAgent leaves the configuration in place: the selection (the
\* chosen tools with all their overrides), the agent's name, its model and
\* its instructions are after the step what they were before it.
C29_UpdateKeepsConfiguration ==
  [][updateAgent => UNCHANGED <<selected, agentName, agentModel, instructions>>]_vars

\* back on the catalog after a deploy, with a tool chosen, an override
\* stored, and name, model and instructions as they were deployed
C29_Witness ==
  /\ step = 1 /\ view = "catalog" /\ deploys > 0 /\ deployReqs = {}
  /\ Stored(selected, "weather", "deploy_params", "auth_type")
       = Str("project_connection")
  /\ agentName = <<"b">> /\ instructions = <<"h">> /\ agentModel = "gpt-4o"


(***************************************************************************)
(* Deleting a tool from the catalog.                                       *)
(***************************************************************************)
\* C30: when the deletion of a tool succeeds, the tool's selection entry
\* with all its overrides and its cached schema are gone and those of the
\* other tools are untouched; when the deletion fails, the selection, the
\* schema cache and the step are what they were.
C30_DeleteTool ==
  [][/\ DeleteToolOk
          => /\ selected'[toolOp.id] = NotSelected
             /\ toolDetails'[toolOp.id] = "absent"
             /\ \A t \in ToolIds \ {toolOp.id} :
                  selected'[t] = selected[t] /\ toolDetails'[t] = toolDetails[t]
     /\ (toolOp.kind = "delete" /\ ToolOpFail)
          => UNCHANGED <<selected, toolDetails, step>>]_vars

\* the deletion of a selected tool in flight, an override stored for it and
\* its schema cached
C30_Witness ==
  /\ toolOp = [kind |-> "delete", id |-> "search"]
  /\ Stored(selected, "search", "runtime_params", "region") = Str("eu")
  /\ toolDetails["search"] # "absent"


(***************************************************************************)
(* Failures of the catalog's requests.                                     *)
(***************************************************************************)
\* C31: when GET /api/tools fails, at the network or with an error
\* response, while the wizard is at step 1, the catalog becomes the empty
\* list and the wizard stays usable: the catalog view with its Next button
\* (goToStep(2)) is on screen, and no modal is put over it.
C31_ListFailureDegrades ==
  [][(step = 1 /\ \E kind \in {"init", "reload"} :
                    LoadToolsFail(kind) \/ LoadToolsError(kind))
       => (tools' = {} /\ view' = "catalog" /\ modal' = modal)]_vars


\* C32: a failed fetch of a tool's schema does not block the wizard: the
\* "Loading tool parameters" screen, which has no button, is on screen only
\* while a fetch it waits for is still to answer; afterwards a view with a
\* navigation button (Back or Next) is shown.
C32_SchemaFailureNotBlocking ==
  view = "loading" => paramJobs # {}


\* C33: when GET /api/tools/{id} answers "not found" for a selected tool
\* while the parameter form is being entered, the wizard returns to the
\* catalog (step 1) and the answer is not kept as the tool's schema.
C33_NotFoundReturns ==
  [][\A j \in paramJobs : \A t \in j.pending :
       (ToolFetchOk(j, t) /\ t \notin serverTools)
         => (step' = 1 /\ view' = "catalog" /\ toolDetails'[t] # "error")]_vars


(***************************************************************************)
(* Who issues the requests.                                                *)
(***************************************************************************)
\* the chat requests a step issues
NewSends == {r \in chatReqs' : \A q \in chatReqs : q.n # r.n}

\* C34: no request is issued on the program's own account: every deploy
\* request is issued by the step of a "Deploy Agent" click (goToStep(4)),
\* one per click, and every chat request by the step of a send, one per
\* send; so after a failure nothing is sent until the user acts again.
C34_NoAutomaticRequests ==
  [][/\ Issued # {} => (goToStep(4) /\ Cardinality(Issued) = 1)
     /\ NewSends # {}
          => ((\E raw \in ChatInputs, via \in SendVia : sendChat(raw, via))
              /\ Cardinality(NewSends) = 1)]_vars


(***************************************************************************)
(* The keys of the prompt parameters.                                      *)
(***************************************************************************)
\* C35: the keys of the draft's prompt parameters are pairwise distinct,
\* whatever rows were added, removed and edited.
C35_KeysDistinct ==
  \A i, j \in 1..Len(promptParams) :
    i # j => promptParams[i].key # promptParams[j].key


(***************************************************************************)
(* Sending before the parameters are confirmed.                            *)
(***************************************************************************)
\* C36: no chat request is issued for an agent that has prompt parameters
\* before they are confirmed: a send happens only with no active parameter
\* or with the form confirmed, and when the details of an agent opened by
\* name arrive and show prompt parameters, no request has been issued in
\* its session yet.
C36_NoSendUnconfirmed ==
  [][/\ NewSends # {} => (Len(ActiveParams) = 0 \/ chatParamsConfirmed)
     /\ \A pp \in ServerAgentParams :
          (AgentFetchOk(pp) /\ Len(pp) > 0 /\ step = 5 /\ deploys = 0)
            => turns = <<>>]_vars


(***************************************************************************)
(* The deployed agent and the step.                                        *)
(***************************************************************************)
\* C37: state.deployedAgent is set exactly when the wizard is at step 5
\* (the chat), and the chat's parameters are confirmed only at step 5.
C37_DeployedIffChatting ==
  /\ deployedAgent.set <=> step = 5
  /\ chatParamsConfirmed => step = 5


\* C38: the three places that resolve a tool parameter agree: for every
\* active tool whose schema is loaded, every section and every declared key,
\* the value the form is filled with, the value consulted for visibility and
\* the value put into the deploy payload are equal in every reachable state,
\* a field with neither default nor override included.
C38_ResolversAgree ==
  \A t \in SelectedIds(selected), sec \in Sections :
    \A k \in DOMAIN FieldsOf(toolDetails, t, sec) :
      /\ FormValue(selected, t, sec, k, FieldsOf(toolDetails, t, sec)[k])
           = ShowIfCurrent(selected, toolDetails, t, sec, k)
      /\ ShowIfCurrent(selected, toolDetails, t, sec, k)
           = DeployFilled(selected, toolDetails, t, sec)[k]


\* C39: whenever the wizard is in SelectTools, the tool catalog has been
\* requested at least once in this session (and is loaded or has degraded to
\* empty), in particular after updateAgent in a session that was opened in
\* chat-only mode.
C39_CatalogRequested == step = 1 => loadReqs.asked

=============================================================================
